---- MODULE Spec2Model ----
(***************************************************************************)
(* Model of ubn::ringbuffer<T, capacity> (include/ringbuffer.hpp).         *)
(* T is modelled as a small integer type whose default-constructed value   *)
(* is 0.  One ringbuffer instance `rb` is driven by emplace / pull /       *)
(* reset; the remaining variables are history variables that record what   *)
(* the calls returned and what an abstract FIFO would have done.           *)
(***************************************************************************)
EXTENDS Integers, Sequences, FiniteSets, TLC

\* ---- bounds of the model -------------------------------------------------
MaxCap == 3
MaxVal == 2
MaxPos == 8
MaxObj == 3
MaxAlloc == 3
WrapBits == 3
MaxItems == 6
MaxCalls == 4

\* ---- the element type and std::size_t ------------------------------------
\* T{} : the value-initialised element
Default == 0
Values == 0..MaxVal
\* std::size_t is an unsigned type of at least 16 bits; arithmetic is modulo
SizeMod == 2^16
\* a narrow std::size_t, used to follow the counters across a wrap-around
WrapMod == 2^WrapBits

VARIABLES
    capacity,     \* template parameter, fixed for the lifetime of the object
    rb,           \* the instance: [p_buffer, m_capacity, m_position]
    op,           \* the last member function called on rb
    eret,         \* result of the last emplace
    pret,         \* result of the last pull
    pidx,         \* storage index the last pull read
    old,          \* rb before the last call
    Q,            \* abstract FIFO of unread values
    aret,         \* what the abstract FIFO returned for the last pull
    written,      \* slots stored to since construction / the last reset
    fr,           \* a freshly constructed instance, re-made at each reset
    f_eret,       \* result of the last emplace on fr
    f_pret,       \* result of the last pull on fr
    constructed,  \* TRUE until the first reset
    phase,        \* "fill": only emplaces so far, "drain": then only pulls
    wrote,        \* values emplaced in the current fill/drain run
    flags,        \* emplace results in the current run
    got,          \* pull results in the current run
    sinceEmpty,   \* emplaces since rb was last empty (saturates)
    wordmod,      \* number of values of std::size_t on this platform
    eslot,        \* slot stored to by the last emplace since the last reset
    eprev,        \* slot stored to by the emplace before that one
    consumed,     \* slots whose latest stored element a pull has returned
    dup,          \* the last pull returned an element already returned
    objs,         \* ringbuffer objects of a program: lifetime state and p_buffer
    allocated,    \* number of storage regions obtained from new[] so far
    deleted,      \* per storage region, the number of delete[] calls on it
    l_rb,         \* usage loop: its ringbuffer
    l_pc,         \* usage loop: next statement ("emplace", "pull", "done")
    l_in,         \* usage loop: the items pushed so far
    l_flags,      \* usage loop: what each emplace returned
    l_out,        \* usage loop: the values pulled so far
    l_onfull,     \* usage loop: some emplace was made on a full buffer
    d_mode,       \* consumer: "run" before its loop, "drain" in it, "done" after
    d_p,          \* consumer: size() when its loop started
    d_n,          \* consumer: pulls made by its loop
    c_rb,         \* two threads: the ringbuffer they share
    c_thr,        \* two threads: per thread, position in its call and its locals
    c_calls,      \* two threads: calls started so far
    c_count,      \* two threads: items emplaced and not yet pulled, by completed calls
    c_writes,     \* two threads: emplace calls completed
    c_overlap     \* two threads: some call started while another was in progress

ringvars == <<capacity, rb, op, eret, pret, pidx, old, Q, aret, written,
              fr, f_eret, f_pret, constructed, phase, wrote, flags, got,
              sinceEmpty, wordmod, eslot, eprev, consumed, dup>>

ownvars == <<objs, allocated, deleted>>

loopvars == <<l_rb, l_pc, l_in, l_flags, l_out, l_onfull>>

drainvars == <<d_mode, d_p, d_n>>

concvars == <<c_rb, c_thr, c_calls, c_count, c_writes, c_overlap>>

vars == <<ringvars, ownvars, loopvars, drainvars, concvars>>

UAdd(a, b) == (a + b) % wordmod
USub(a, b) == (a - b) % wordmod

\* ---- the class -------------------------------------------------------------
\* member initialisers + constructor
ctor ==
    [p_buffer   |-> [i \in 0..capacity |-> Default],
     m_capacity |-> capacity,
     m_position |-> 0]

size(s) == USub(capacity, s.m_capacity)

\* inverted sense: tests the free count against 0
is_empty_inverted(s) == s.m_capacity = 0

is_empty(s) == ~(s.m_capacity # capacity)

\* swapped branches of the conditional
is_full_swapped(s) == IF s.m_capacity # 0 THEN TRUE ELSE FALSE

is_full(s) == IF s.m_capacity # 0 THEN FALSE ELSE TRUE

\* reports only a push made on an already full buffer
is_overwrite_strict(s) ==
    [self |-> [s EXCEPT !.m_capacity =
                   IF s.m_capacity # 0 THEN USub(s.m_capacity, 1) ELSE s.m_capacity],
     ret  |-> s.m_capacity = 0]

\* tests the free count without decrementing it
is_overwrite_nodec(s) ==
    [self |-> s,
     ret  |-> IF s.m_capacity # 0 THEN FALSE ELSE TRUE]

\* (m_capacity ? --m_capacity : false) ? false : true
is_overwrite(s) ==
    LET dec  == IF s.m_capacity # 0 THEN USub(s.m_capacity, 1) ELSE s.m_capacity
        cond == IF s.m_capacity # 0 THEN dec # 0 ELSE FALSE
    IN  [self |-> [s EXCEPT !.m_capacity = dec],
         ret  |-> IF cond THEN FALSE ELSE TRUE]

\* pre-increment instead of post-increment: ++m_position % capacity
emplace_index_preinc(s) == UAdd(s.m_position, 1) % capacity

\* reduces by the storage length capacity + 1 instead of capacity
emplace_index_storage(s) == s.m_position % (capacity + 1)

\* slot written by emplace: m_position++ % capacity
emplace_index(s) == s.m_position % capacity

emplace(s, v) ==
    is_overwrite([s EXCEPT !.p_buffer[emplace_index(s)] = v,
                           !.m_position = UAdd(s.m_position, 1)])

\* wrong sign on the free count
pull_index_sign(s) ==
    IF is_empty(s)
    THEN capacity
    ELSE USub(s.m_position, s.m_capacity) % capacity

\* reads the newest element instead of the oldest
pull_index_newest(s) ==
    IF is_empty(s)
    THEN capacity
    ELSE USub(s.m_position, 1) % capacity

\* no sentinel slot for the empty case
pull_index_nosentinel(s) ==
    USub(UAdd(s.m_position, s.m_capacity), capacity) % capacity

\* is_empty() ? capacity : (m_position + m_capacity++ - capacity) % capacity
pull_index(s) ==
    IF is_empty(s)
    THEN capacity
    ELSE USub(UAdd(s.m_position, s.m_capacity), capacity) % capacity

\* returns the element without advancing: m_capacity instead of m_capacity++
pull_peek(s) ==
    [self  |-> s,
     index |-> pull_index(s),
     ret   |-> s.p_buffer[pull_index(s)]]

pull(s) ==
    [self  |-> IF is_empty(s) THEN s
               ELSE [s EXCEPT !.m_capacity = UAdd(s.m_capacity, 1)],
     index |-> pull_index(s),
     ret   |-> s.p_buffer[pull_index(s)]]

\* forgets to restore the free count
reset_position_only(s) == [s EXCEPT !.m_position = 0]

\* also value-initialises the storage
reset_clear(s) ==
    [p_buffer   |-> [i \in 0..capacity |-> Default],
     m_capacity |-> capacity,
     m_position |-> 0]

reset(s) == [s EXCEPT !.m_capacity = capacity, !.m_position = 0]

\* ---- history bookkeeping ---------------------------------------------------
Min(a, b) == IF a < b THEN a ELSE b

NoSlot == -1

RingStart ==
    /\ capacity \in 1..MaxCap
    /\ rb = ctor
    /\ op = "ctor"
    /\ eret = FALSE
    /\ pret = Default
    /\ pidx = capacity
    /\ old = ctor
    /\ Q = <<>>
    /\ aret = Default
    /\ written = {}
    /\ fr = ctor
    /\ f_eret = FALSE
    /\ f_pret = Default
    /\ constructed = TRUE
    /\ phase = "fill"
    /\ wrote = <<>>
    /\ flags = <<>>
    /\ got = <<>>
    /\ sinceEmpty = 0
    /\ eslot = NoSlot
    /\ eprev = NoSlot
    /\ consumed = {}
    /\ dup = FALSE

InitRing ==
    /\ wordmod = SizeMod
    /\ RingStart

RunOff ==
    /\ phase' = "off"
    /\ wrote' = <<>>
    /\ flags' = <<>>
    /\ got' = <<>>

\* ---- the calls -------------------------------------------------------------
EmplaceCall(v) ==
    /\ rb' = emplace(rb, v).self
    /\ eret' = emplace(rb, v).ret
    /\ op' = "emplace"
    /\ old' = rb
    /\ Q' = IF Len(Q) = capacity THEN Append(Tail(Q), v) ELSE Append(Q, v)
    /\ written' = written \cup {emplace_index(rb)}
    /\ fr' = emplace(fr, v).self
    /\ f_eret' = emplace(fr, v).ret
    /\ sinceEmpty' = IF is_empty(rb) THEN 1 ELSE Min(sinceEmpty + 1, capacity + 1)
    /\ IF phase = "fill" /\ Len(wrote) <= capacity
       THEN /\ wrote' = Append(wrote, v)
            /\ flags' = Append(flags, emplace(rb, v).ret)
            /\ UNCHANGED <<phase, got>>
       ELSE RunOff
    /\ eprev' = eslot
    /\ eslot' = emplace_index(rb)
    /\ consumed' = consumed \ {emplace_index(rb)}
    /\ dup' = FALSE
    /\ UNCHANGED <<capacity, pret, pidx, aret, f_pret, constructed, wordmod>>
    /\ UNCHANGED <<ownvars, loopvars, drainvars, concvars>>

\* the write counter is kept below MaxPos, so it never wraps
Emplace(v) ==
    /\ rb.m_position < MaxPos
    /\ EmplaceCall(v)

PullCall ==
    /\ rb' = pull(rb).self
    /\ pret' = pull(rb).ret
    /\ pidx' = pull(rb).index
    /\ op' = "pull"
    /\ old' = rb
    /\ aret' = IF Q = <<>> THEN Default ELSE Head(Q)
    /\ Q' = IF Q = <<>> THEN Q ELSE Tail(Q)
    /\ fr' = pull(fr).self
    /\ f_pret' = pull(fr).ret
    /\ IF phase \in {"fill", "drain"} /\ Len(got) < Min(Len(wrote), capacity)
       THEN /\ phase' = "drain"
            /\ got' = Append(got, pull(rb).ret)
            /\ UNCHANGED <<wrote, flags>>
       ELSE RunOff
    /\ dup' = (pull(rb).index # capacity /\ pull(rb).index \in consumed)
    /\ consumed' = IF pull(rb).index # capacity
                   THEN consumed \cup {pull(rb).index}
                   ELSE consumed
    /\ UNCHANGED <<capacity, eret, written, f_eret, constructed, sinceEmpty>>
    /\ UNCHANGED <<wordmod, eslot, eprev>>
    /\ UNCHANGED <<ownvars, loopvars, concvars>>

Pull ==
    /\ PullCall
    /\ UNCHANGED drainvars

Reset ==
    /\ rb' = reset(rb)
    /\ op' = "reset"
    /\ old' = rb
    /\ Q' = <<>>
    /\ written' = {}
    /\ fr' = ctor
    /\ constructed' = FALSE
    /\ phase' = "fill"
    /\ wrote' = <<>>
    /\ flags' = <<>>
    /\ got' = <<>>
    /\ sinceEmpty' = 0
    /\ eslot' = NoSlot
    /\ eprev' = NoSlot
    /\ dup' = FALSE
    /\ UNCHANGED <<capacity, eret, pret, pidx, aret, f_eret, f_pret>>
    /\ UNCHANGED <<wordmod, consumed>>
    /\ UNCHANGED <<ownvars, loopvars, drainvars, concvars>>

\* ---- object lifetime and storage ownership ---------------------------------
\* Several ringbuffer objects of one program.  Each live object holds the
\* pointer p_buffer it got from its member initialiser or from the object it
\* was copy-constructed from; the destructor hands that pointer to delete[].
Objects == 1..MaxObj
Regions == 1..MaxAlloc
NoRegion == 0

InitOwn ==
    /\ objs = [o \in Objects |-> [state |-> "none", p_buffer |-> NoRegion]]
    /\ allocated = 0
    /\ deleted = [r \in Regions |-> 0]

\* ringbuffer(): p_buffer { new T[capacity + 1]{} }
Construct(o) ==
    /\ objs[o].state = "none"
    /\ allocated < MaxAlloc
    /\ allocated' = allocated + 1
    /\ objs' = [objs EXCEPT ![o] = [state |-> "alive", p_buffer |-> allocated + 1]]
    /\ UNCHANGED deleted
    /\ UNCHANGED <<ringvars, loopvars, drainvars, concvars>>

\* ringbuffer(const ringbuffer&): only operator= is deleted, so the copy
\* constructor is the implicit one and copies the members, p_buffer included
\* (an rvalue argument binds to it as well: no move constructor is declared)
CopyConstruct(o, src) ==
    /\ objs[o].state = "none"
    /\ objs[src].state = "alive"
    /\ objs' = [objs EXCEPT ![o] = [state |-> "alive", p_buffer |-> objs[src].p_buffer]]
    /\ UNCHANGED <<allocated, deleted>>
    /\ UNCHANGED <<ringvars, loopvars, drainvars, concvars>>

\* ~ringbuffer(): delete[] p_buffer
Destroy(o) ==
    /\ objs[o].state = "alive"
    /\ deleted' = [deleted EXCEPT ![objs[o].p_buffer] = @ + 1]
    /\ objs' = [objs EXCEPT ![o].state = "destroyed"]
    /\ UNCHANGED allocated
    /\ UNCHANGED <<ringvars, loopvars, drainvars, concvars>>

\* ---- the usage loop of the README -------------------------------------------
\* for each new item: if (rb.emplace(item)) rb.pull();
InitLoop ==
    /\ l_rb = ctor
    /\ l_pc = "emplace"
    /\ l_in = <<>>
    /\ l_flags = <<>>
    /\ l_out = <<>>
    /\ l_onfull = FALSE

LoopEmplace(v) ==
    /\ l_pc = "emplace"
    /\ Len(l_in) < MaxItems
    /\ l_rb' = emplace(l_rb, v).self
    /\ l_flags' = Append(l_flags, emplace(l_rb, v).ret)
    /\ l_in' = Append(l_in, v)
    /\ l_onfull' = (l_onfull \/ is_full(l_rb))
    /\ l_pc' = IF emplace(l_rb, v).ret THEN "pull" ELSE "emplace"
    /\ UNCHANGED l_out
    /\ UNCHANGED <<ringvars, ownvars, drainvars, concvars>>

LoopPull ==
    /\ l_pc = "pull"
    /\ l_rb' = pull(l_rb).self
    /\ l_out' = Append(l_out, pull(l_rb).ret)
    /\ l_pc' = "emplace"
    /\ UNCHANGED <<l_in, l_flags, l_onfull>>
    /\ UNCHANGED <<ringvars, ownvars, drainvars, concvars>>

LoopExit ==
    /\ l_pc = "emplace"
    /\ Len(l_in) = MaxItems
    /\ l_pc' = "done"
    /\ UNCHANGED <<l_rb, l_in, l_flags, l_out, l_onfull>>
    /\ UNCHANGED <<ringvars, ownvars, drainvars, concvars>>

\* ---- a consumer that empties the buffer ------------------------------------
\* after any sequence of calls: while (!rb.is_empty()) rb.pull();
InitDrain ==
    /\ d_mode = "run"
    /\ d_p = 0
    /\ d_n = 0

DrainStart ==
    /\ d_mode = "run"
    /\ d_mode' = "drain"
    /\ d_p' = size(rb)
    /\ d_n' = 0
    /\ UNCHANGED <<ringvars, ownvars, loopvars, concvars>>

DrainPull ==
    /\ d_mode = "drain"
    /\ ~is_empty(rb)
    /\ PullCall
    /\ d_n' = d_n + 1
    /\ UNCHANGED <<d_mode, d_p>>

DrainExit ==
    /\ d_mode = "drain"
    /\ is_empty(rb)
    /\ d_mode' = "done"
    /\ UNCHANGED <<d_p, d_n>>
    /\ UNCHANGED <<ringvars, ownvars, loopvars, concvars>>

\* ---- two threads calling emplace and pull without synchronisation ----------
\* Each call is executed as its separate loads and stores of m_position,
\* m_capacity and the storage slot; the steps of the two threads interleave.
NumThreads == 2
Threads == 1..NumThreads

Idle == [pc |-> "idle", v |-> Default, pos |-> 0, mc |-> 0, idx |-> 0]

Max(a, b) == IF a > b THEN a ELSE b

InitConc ==
    /\ c_rb = ctor
    /\ c_thr = [t \in Threads |-> Idle]
    /\ c_calls = 0
    /\ c_count = 0
    /\ c_writes = 0
    /\ c_overlap = FALSE

ConcRest == UNCHANGED <<ringvars, ownvars, loopvars, drainvars>>

StartCall(t, pc0, v) ==
    /\ c_thr[t].pc = "idle"
    /\ c_calls < MaxCalls
    /\ c_calls' = c_calls + 1
    /\ c_thr' = [c_thr EXCEPT ![t] = [Idle EXCEPT !.pc = pc0, !.v = v]]
    /\ c_overlap' = (c_overlap \/ \E u \in Threads : u # t /\ c_thr[u].pc # "idle")
    /\ UNCHANGED <<c_rb, c_count, c_writes>>
    /\ ConcRest

\* emplace(v) is called
ConcEmplace(t, v) == StartCall(t, "e_load_pos", v)

\* m_position++ : load
EmplaceLoadPos(t) ==
    /\ c_thr[t].pc = "e_load_pos"
    /\ c_thr' = [c_thr EXCEPT ![t].pos = c_rb.m_position, ![t].pc = "e_store_pos"]
    /\ UNCHANGED <<c_rb, c_calls, c_count, c_writes, c_overlap>>
    /\ ConcRest

\* m_position++ : store
EmplaceStorePos(t) ==
    /\ c_thr[t].pc = "e_store_pos"
    /\ c_rb' = [c_rb EXCEPT !.m_position = UAdd(c_thr[t].pos, 1)]
    /\ c_thr' = [c_thr EXCEPT ![t].pc = "e_store_slot"]
    /\ UNCHANGED <<c_calls, c_count, c_writes, c_overlap>>
    /\ ConcRest

\* p_buffer[... % capacity] = __v
EmplaceStoreSlot(t) ==
    /\ c_thr[t].pc = "e_store_slot"
    /\ c_rb' = [c_rb EXCEPT
                   !.p_buffer[emplace_index([m_position |-> c_thr[t].pos])] = c_thr[t].v]
    /\ c_thr' = [c_thr EXCEPT ![t].pc = "e_load_cap"]
    /\ UNCHANGED <<c_calls, c_count, c_writes, c_overlap>>
    /\ ConcRest

\* is_overwrite(): load of m_capacity; the call returns here when it is 0
EmplaceLoadCap(t) ==
    /\ c_thr[t].pc = "e_load_cap"
    /\ IF c_rb.m_capacity # 0
       THEN /\ c_thr' = [c_thr EXCEPT ![t].mc = c_rb.m_capacity,
                                      ![t].pc = "e_store_cap"]
            /\ UNCHANGED <<c_count, c_writes>>
       ELSE /\ c_thr' = [c_thr EXCEPT ![t] = Idle]
            /\ c_count' = Min(c_count + 1, capacity)
            /\ c_writes' = c_writes + 1
    /\ UNCHANGED <<c_rb, c_calls, c_overlap>>
    /\ ConcRest

\* is_overwrite(): --m_capacity store, then the call returns
EmplaceStoreCap(t) ==
    /\ c_thr[t].pc = "e_store_cap"
    /\ c_rb' = [c_rb EXCEPT
                   !.m_capacity = is_overwrite([m_capacity |-> c_thr[t].mc]).self.m_capacity]
    /\ c_thr' = [c_thr EXCEPT ![t] = Idle]
    /\ c_count' = Min(c_count + 1, capacity)
    /\ c_writes' = c_writes + 1
    /\ UNCHANGED <<c_calls, c_overlap>>
    /\ ConcRest

\* pull() is called
ConcPull(t) == StartCall(t, "p_test", Default)

\* is_empty(): load of m_capacity and choice of the branch
PullTest(t) ==
    /\ c_thr[t].pc = "p_test"
    /\ c_thr' = IF is_empty(c_rb)
                THEN [c_thr EXCEPT ![t].idx = capacity, ![t].pc = "p_read_empty"]
                ELSE [c_thr EXCEPT ![t].pc = "p_load_pos"]
    /\ UNCHANGED <<c_rb, c_calls, c_count, c_writes, c_overlap>>
    /\ ConcRest

\* load of m_position
PullLoadPos(t) ==
    /\ c_thr[t].pc = "p_load_pos"
    /\ c_thr' = [c_thr EXCEPT ![t].pos = c_rb.m_position, ![t].pc = "p_load_cap"]
    /\ UNCHANGED <<c_rb, c_calls, c_count, c_writes, c_overlap>>
    /\ ConcRest

\* m_capacity++ : load
PullLoadCap(t) ==
    /\ c_thr[t].pc = "p_load_cap"
    /\ c_thr' = [c_thr EXCEPT ![t].mc = c_rb.m_capacity, ![t].pc = "p_store_cap"]
    /\ UNCHANGED <<c_rb, c_calls, c_count, c_writes, c_overlap>>
    /\ ConcRest

\* m_capacity++ : store; the index is computed from the loaded values
PullStoreCap(t) ==
    /\ c_thr[t].pc = "p_store_cap"
    /\ c_rb' = [c_rb EXCEPT !.m_capacity = UAdd(c_thr[t].mc, 1)]
    /\ c_thr' = [c_thr EXCEPT
                    ![t].idx = USub(UAdd(c_thr[t].pos, c_thr[t].mc), capacity) % capacity,
                    ![t].pc = "p_read"]
    /\ UNCHANGED <<c_calls, c_count, c_writes, c_overlap>>
    /\ ConcRest

\* load of p_buffer[index], then the call returns
PullRead(t) ==
    /\ c_thr[t].pc \in {"p_read", "p_read_empty"}
    /\ c_thr' = [c_thr EXCEPT ![t] = Idle]
    /\ c_count' = IF c_thr[t].pc = "p_read" THEN Max(c_count - 1, 0) ELSE c_count
    /\ UNCHANGED <<c_rb, c_calls, c_writes, c_overlap>>
    /\ ConcRest

Init == InitRing /\ InitOwn /\ InitLoop /\ InitDrain /\ InitConc

Next ==
    \/ \E v \in Values : Emplace(v)
    \/ Pull
    \/ Reset

Spec == Init /\ [][Next]_vars

NextOwn ==
    \/ \E o \in Objects : Construct(o)
    \/ \E o, src \in Objects : CopyConstruct(o, src)
    \/ \E o \in Objects : Destroy(o)

SpecOwn == Init /\ [][NextOwn]_vars

NextLoop ==
    \/ \E v \in Values : LoopEmplace(v)
    \/ LoopPull
    \/ LoopExit

SpecLoop == Init /\ [][NextLoop]_vars

RunStep ==
    /\ d_mode = "run"
    /\ Next

NextDrain ==
    \/ RunStep
    \/ DrainStart
    \/ DrainPull
    \/ DrainExit

\* the consumer is a running loop: its next statement is eventually executed
SpecDrain ==
    Init /\ [][NextDrain]_vars /\ WF_vars(DrainPull) /\ WF_vars(DrainExit)

NextConc ==
    \E t \in Threads :
        \/ \E v \in Values : ConcEmplace(t, v)
        \/ EmplaceLoadPos(t)
        \/ EmplaceStorePos(t)
        \/ EmplaceStoreSlot(t)
        \/ EmplaceLoadCap(t)
        \/ EmplaceStoreCap(t)
        \/ ConcPull(t)
        \/ PullTest(t)
        \/ PullLoadPos(t)
        \/ PullLoadCap(t)
        \/ PullStoreCap(t)
        \/ PullRead(t)

SpecConc == Init /\ [][NextConc]_vars

\* the same calls on a platform whose std::size_t has WrapBits bits, with no
\* limit on the number of writes
InitWrap ==
    /\ wordmod = WrapMod
    /\ RingStart
    /\ InitOwn
    /\ InitLoop
    /\ InitDrain
    /\ InitConc

NextWrap ==
    \/ \E v \in Values : EmplaceCall(v)
    \/ Pull
    \/ Reset

SpecWrap == InitWrap /\ [][NextWrap]_vars

\* ---- properties ------------------------------------------------------------
\* slots holding the written-but-unread elements of s
UnreadSlots(s) == {USub(s.m_position, k) % capacity : k \in 1..size(s)}

\* C1: the buffer refines an abstract FIFO Q of at most capacity values:
\* size() = Len(Q), every pull returned what Q returned, and the next pull
\* returns Head(Q) (the default value when Q is empty).
C1_RefinesFifo ==
    /\ Len(Q) <= capacity
    /\ size(rb) = Len(Q)
    /\ (op = "pull" => pret = aret)
    /\ pull(rb).ret = (IF Q = <<>> THEN Default ELSE Head(Q))

C1_Witness ==
    /\ op = "pull"
    /\ capacity >= 2
    /\ old.m_position > capacity
    /\ is_full(old)
    /\ pret # Default
    /\ Len(Q) >= 1

\* C2: size() stays in [0, capacity]; m_capacity stays in [0, capacity], so
\* capacity - m_capacity never underflows.
C2_BoundedSize ==
    /\ rb.m_capacity \in 0..capacity
    /\ capacity - rb.m_capacity >= 0
    /\ size(rb) \in 0..capacity

C2_Witness ==
    /\ op = "pull"
    /\ is_empty(old)
    /\ old.m_position > capacity

\* C3: is_empty() <=> size() = 0, is_full() <=> size() = capacity, and the
\* two are never both true.
C3_EmptyFullDuality ==
    /\ is_empty(rb) <=> (size(rb) = 0)
    /\ is_full(rb) <=> (size(rb) = capacity)
    /\ ~(is_empty(rb) /\ is_full(rb))

C3_Witness ==
    /\ op = "emplace"
    /\ is_full(rb)
    /\ ~is_full(old)
    /\ ~is_empty(old)

\* C4: on a freshly constructed buffer, k <= capacity emplaces followed by
\* pulls return the emplaced values in order; after k pulls it is empty.
C4_FifoNoOverflow ==
    (constructed /\ phase = "drain" /\ Len(wrote) <= capacity) =>
        /\ got = SubSeq(wrote, 1, Len(got))
        /\ (Len(got) = Len(wrote) => is_empty(rb))

C4_Witness ==
    /\ constructed
    /\ phase = "drain"
    /\ capacity >= 2
    /\ Len(wrote) = capacity
    /\ Len(got) = capacity
    /\ wrote[1] # wrote[2]

\* C5: on a freshly constructed buffer, capacity+1 emplaces followed by
\* capacity pulls return v2..v(capacity+1), and the last emplace returned true.
C5_OverwriteOldest ==
    (constructed /\ phase \in {"fill", "drain"} /\ Len(wrote) = capacity + 1) =>
        /\ flags[capacity + 1] = TRUE
        /\ got = SubSeq(wrote, 2, Len(got) + 1)

C5_Witness ==
    /\ constructed
    /\ phase = "drain"
    /\ Len(wrote) = capacity + 1
    /\ Len(got) = capacity
    /\ wrote[1] # wrote[2]

C7_TrueIffOverwrote ==
    op = "emplace" =>
        (eret <=> (is_full(old) /\ emplace_index(old) \in UnreadSlots(old)))

\* C8: pull on an empty buffer returns the default value and changes neither
\* cursor nor size().
C8_EmptyPullSentinel ==
    (op = "pull" /\ is_empty(old)) =>
        /\ pret = Default
        /\ rb.m_capacity = old.m_capacity
        /\ rb.m_position = old.m_position
        /\ size(rb) = size(old)

C8_Witness ==
    /\ op = "pull"
    /\ is_empty(old)
    /\ old.m_position > capacity
    /\ \E i \in 0..(capacity - 1) : old.p_buffer[i] # Default

\* C9: after reset() the buffer answers every emplace and pull as a freshly
\* constructed one does, no pull reads a slot that was not stored to since
\* the reset, and reset() after reset() changes nothing.
C9_ResetLikeFresh ==
    /\ (op = "emplace" => eret = f_eret)
    /\ (op = "pull" => pret = f_pret)
    /\ size(rb) = size(fr)
    /\ (is_empty(rb) <=> is_empty(fr))
    /\ (is_full(rb) <=> is_full(fr))
    /\ (op = "pull" /\ pidx # capacity => pidx \in written)
    /\ (op = "reset" => reset(rb) = rb)
    /\ (~constructed /\ phase = "drain" /\ Len(wrote) = capacity =>
            got = SubSeq(wrote, 1, Len(got)))

C9_Witness ==
    /\ ~constructed
    /\ op = "pull"
    /\ phase = "drain"
    /\ Len(got) = Len(wrote)
    /\ rb.p_buffer # fr.p_buffer
    /\ pret # Default

\* C10: the storage region is exclusively owned: no two live ringbuffer
\* objects hold the same p_buffer, and no region is passed to delete[] more
\* than once.
C10_ExclusiveStorage ==
    /\ \A a, b \in Objects :
           (a # b /\ objs[a].state = "alive" /\ objs[b].state = "alive")
               => objs[a].p_buffer # objs[b].p_buffer
    /\ \A r \in Regions : deleted[r] <= 1

\* the unread elements of s, oldest first, as pull would read them
Window(s) ==
    [i \in 1..size(s) |->
        s.p_buffer[USub(UAdd(s.m_position, i - 1), size(s)) % capacity]]

\* C12: emplace stores into slot m_position mod capacity, which is in
\* 0..capacity-1, so slot capacity always holds the default value.
C12_SentinelUntouched ==
    /\ rb.p_buffer[capacity] = Default
    /\ (op = "emplace" => emplace_index(old) \in 0..(capacity - 1))

C12_Witness ==
    /\ op = "emplace"
    /\ old.m_position >= 2 * capacity
    /\ \A i \in 0..(capacity - 1) : rb.p_buffer[i] # Default

\* C13: an emplace on a full buffer writes the slot of the oldest unread
\* element and keeps the other unread elements in order; an emplace on a
\* non-full buffer writes outside the unread window and destroys nothing.
C13_OverwriteOldestSlot ==
    op = "emplace" =>
        /\ is_full(old) =>
              /\ emplace_index(old) = pull_index(old)
              /\ Window(rb) = Append(Tail(Window(old)), Q[Len(Q)])
        /\ ~is_full(old) =>
              /\ emplace_index(old) \notin UnreadSlots(old)
              /\ Window(rb) = Append(Window(old), Q[Len(Q)])

C13_Witness ==
    /\ op = "emplace"
    /\ is_full(old)
    /\ capacity >= 2
    /\ old.m_position > capacity
    /\ Window(old)[1] # Window(old)[2]
    /\ Window(old)[1] # Q[Len(Q)]

\* C16: pull and reset leave every storage slot unchanged, emplace changes
\* no slot other than m_position mod capacity (which receives the value),
\* and reset only sets m_capacity = capacity and m_position = 0.
C16_StorageFrame ==
    /\ (op = "pull" => rb.p_buffer = old.p_buffer)
    /\ (op = "reset" =>
           /\ rb.p_buffer = old.p_buffer
           /\ rb.m_capacity = capacity
           /\ rb.m_position = 0)
    /\ (op = "emplace" =>
           /\ \A i \in 0..capacity :
                 i # emplace_index(old) => rb.p_buffer[i] = old.p_buffer[i]
           /\ rb.p_buffer[emplace_index(old)] = Q[Len(Q)])

C16_Witness ==
    /\ op = "reset"
    /\ ~is_empty(old)
    /\ old.m_position > capacity
    /\ \E i \in 0..(capacity - 1) : rb.p_buffer[i] # Default

\* C17: the unread count never exceeds the writes since construction or
\* the last reset (m_position + m_capacity >= capacity), so the index
\* expression in pull does not underflow, lies in 0..capacity-1 and names a
\* slot stored to since the last reset.
C17_NoIndexUnderflow ==
    /\ rb.m_position + rb.m_capacity >= capacity
    /\ capacity - rb.m_capacity <= rb.m_position
    /\ (~is_empty(rb) =>
           /\ pull_index(rb) = (rb.m_position + rb.m_capacity - capacity) % capacity
           /\ pull_index(rb) \in 0..(capacity - 1)
           /\ pull_index(rb) \in written)

C17_Witness ==
    /\ ~constructed
    /\ op = "emplace"
    /\ capacity >= 2
    /\ rb.m_position + rb.m_capacity = capacity
    /\ rb.m_position < capacity
    /\ \E i \in 0..(capacity - 1) : i \notin written /\ rb.p_buffer[i] # Default

\* C14: with a w-bit write counter, consecutive emplaces (no reset between)
\* always store into the slot following (mod capacity) the slot of the
\* previous emplace, also across the wrap of the counter, and pull keeps
\* returning the elements in FIFO order.
C14_WrapInvisible ==
    /\ (op = "emplace" /\ eprev # NoSlot => eslot = (eprev + 1) % capacity)
    /\ (op = "pull" => pret = aret)

\* read position of s: the slot of its oldest unread element
ReadPos(s) == USub(s.m_position, size(s)) % capacity

\* C15: no stored element is returned by two pulls; a pull on a non-empty
\* buffer reads at the read position, advances it by one slot and lowers
\* size() by one.
C15_PullConsumesOnce ==
    /\ ~dup
    /\ (op = "pull" /\ ~is_empty(old) =>
           /\ pidx = ReadPos(old)
           /\ size(rb) = size(old) - 1
           /\ (~is_empty(rb) => ReadPos(rb) = (ReadPos(old) + 1) % capacity))

C15_Witness ==
    /\ op = "pull"
    /\ ~is_empty(old)
    /\ ~is_empty(rb)
    /\ old.m_position > capacity
    /\ consumed = 0..(capacity - 1) \ UnreadSlots(rb)

C19_DrainTerminates ==
    /\ [](d_mode = "drain" => d_n + size(rb) = d_p)
    /\ [](d_mode = "done" => (d_n = d_p /\ is_empty(rb) /\ ~is_full(rb)))
    /\ []((ENABLED PullCall) /\ (ENABLED Reset)
            /\ \A v \in Values : ENABLED EmplaceCall(v))
    /\ [](op = "reset" => (rb.m_capacity = capacity /\ rb.m_position = 0))
    /\ ((d_mode = "drain") ~> (d_mode = "done"))

C19_Witness ==
    /\ d_mode = "done"
    /\ capacity >= 2
    /\ d_p = capacity
    /\ d_n = capacity
    /\ old.m_position > capacity

\* no call is in progress
AllIdle == \A t \in Threads : c_thr[t].pc = "idle"

\* what holds between calls when the calls are made one after the other
SeqGuarantees ==
    /\ c_rb.m_capacity <= capacity
    /\ size(c_rb) = c_count
    /\ c_rb.m_position = c_writes

\* C11: without synchronisation the buffer is not safe for two threads: the
\* sequential guarantees (m_capacity <= capacity, size() = items emplaced and
\* not yet pulled, m_position = emplaces made) hold between calls as long as
\* no two calls overlapped, and a state violating them is reached once the
\* loads and stores of two calls interleave.
C11_UnsafeWhenInterleaved ==
    (AllIdle /\ ~c_overlap) => SeqGuarantees

C11_Witness ==
    /\ AllIdle
    /\ c_overlap
    /\ c_rb.m_capacity <= capacity
    /\ size(c_rb) # c_count

====
